---- MODULE Spec2Model ----
(***************************************************************************)
(* battery-monitor-daemon (src/src/main.rs): a sampling task reads the     *)
(* battery, enqueues a state message whenever the reading changed, a       *)
(* delivery task drains the queue into MQTT publish calls, and main        *)
(* publishes one discovery message and then polls the MQTT event loop.     *)
(*                                                                         *)
(* Percentages are f32 in the code.  The sensor interface returns values   *)
(* in 0..100, on which f32 equality is equality of the value, so they are  *)
(* modelled as naturals.                                                   *)
(***************************************************************************)
EXTENDS Naturals, Sequences, FiniteSets, TLC

\* ------------------------------------------------------------------ bounds
\* Number of sampling ticks explored.
MaxTicks == 5
\* Capacity of the mpsc channel in the model (the code: size_of::<Message>()).
QueueCap == 2
\* Number of battery devices the manager enumerates, at most.
MaxBatteries == 1

\* ------------------------------------------------------------- data model
\* ChargeInfo { percentage, state }
ChargeInfo(p, s) == [percentage |-> p, state |-> s]

\* The readings the sensor yields in the model: the sentinel's value, and two
\* that differ from each other in the state field alone.
Readings ==
    { ChargeInfo(0, "Unknown"), ChargeInfo(74, "Discharging"),
      ChargeInfo(74, "Charging") }

\* The ChargeInfo used at start-up and on a failed read.
Sentinel == ChargeInfo(0, "Unknown")

\* serde's rendering of the f32 percentage.
F32Json(p) ==
    CASE p = 0 -> "0.0"
      [] p = 74 -> "74.0"

\* #[serde(remote = "State")] enum StateDef: the variant's name.
StateDef(s) ==
    CASE s = "Unknown" -> "Unknown"
      [] s = "Charging" -> "Charging"
      [] s = "Discharging" -> "Discharging"
      [] s = "Empty" -> "Empty"
      [] s = "Full" -> "Full"

\* serde_json::to_string(&ChargeInfo)
ChargeInfoJson(v) ==
    "{\"percentage\":" \o F32Json(v.percentage) \o ",\"state\":\""
        \o StateDef(v.state) \o "\"}"

\* The payload used when serde_json::to_string fails.
ParsingError == "parsing error"

\* DiscoveryDevice's Display.
DiscoveryDeviceFmt(comp) ==
    CASE comp = "BinarySensor" -> "binary_sensor"
      [] comp = "Sensor" -> "sensor"
      [] OTHER -> "none"

\* DiscoveryTopic's Display; node_id is <<>> (NodeID::Empty) or <<id>>.
DiscoveryTopicFmt(t) ==
    IF t.node_id = <<>>
    THEN t.discovery_prefix \o "/" \o DiscoveryDeviceFmt(t.comp) \o "/"
            \o t.object_id \o "/config"
    ELSE t.discovery_prefix \o "/" \o t.node_id[1] \o "/"
            \o DiscoveryDeviceFmt(t.comp) \o "/" \o t.object_id \o "/config"

\* DiscoveryTopicBuilder::new(); host is <<>> when gethostname() is no String.
DiscoveryTopicBuilderNew(host) ==
    [ discovery_prefix |-> "homeassistant", comp |-> "NoneType",
      node_id |-> <<>>, object_id |-> IF host = <<>> THEN "" ELSE host[1] ]

\* DiscoveryTopicBuilder::comp
BuilderComp(b, comp) == [b EXCEPT !.comp = comp]

\* DiscoveryPayload::new
DiscoveryPayloadNew(name, device_class, state_topic, unit, template) ==
    [ name |-> name, device_class |-> device_class, state_topic |-> state_topic,
      unit_of_measurement |-> unit, value_template |-> template ]

\* serde_json::to_string(&DiscoveryPayload)
DiscoveryPayloadJson(p) ==
    "{\"name\":\"" \o p.name \o "\",\"device_class\":\"" \o p.device_class
        \o "\",\"state_topic\":\"" \o p.state_topic
        \o "\",\"unit_of_measurement\":\"" \o p.unit_of_measurement
        \o "\",\"value_template\":\"" \o p.value_template \o "\"}"

\* MessageBuilder::new
MessageBuilderNew == [topic |-> "", payload |-> "", retain |-> FALSE]

\* MessageBuilder::retain / topic / payload / build
BuilderRetain(b, retain) == [b EXCEPT !.retain = retain]
BuilderTopic(b, topic) == [b EXCEPT !.topic = topic]
BuilderPayload(b, payload) == [b EXCEPT !.payload = payload]
BuilderBuild(b) == [topic |-> b.topic, payload |-> b.payload, retain |-> b.retain]

\* impl From<Discovery> for MessageBuilder (the payload already rendered).
MessageBuilderFrom(topic, payloadJson) ==
    [topic |-> DiscoveryTopicFmt(topic), payload |-> payloadJson, retain |-> FALSE]

\* Mutant: the builder's retain(true) call is left out.
DiscoveryMessageNoRetain(topic, payloadJson) ==
    BuilderBuild(MessageBuilderFrom(topic, payloadJson))

\* home_assistant_discovery: the message handed to mqtt_send.
DiscoveryMessage(topic, payloadJson) ==
    BuilderBuild(BuilderRetain(MessageBuilderFrom(topic, payloadJson), TRUE))

\* ------------------------------------------------------- get_charge_info
Ok(v) == [ok |-> TRUE, value |-> v]
Err == [ok |-> FALSE]

\* What one step of the batteries() iterator yields: a reading or an error.
DevResults == { Ok(r) : r \in Readings } \cup {Err}

RECURSIVE BatteryLoop(_, _)
\* The for loop of get_charge_info: `dev?` returns on the first error, the
\* last battery's reading otherwise.
BatteryLoop(devs, acc) ==
    IF devs = <<>> THEN Ok(acc)
    ELSE IF ~Head(devs).ok THEN Err
    ELSE BatteryLoop(Tail(devs), Head(devs).value)

\* get_charge_info(): Manager::new()?, manager.batteries()?, then the loop.
get_charge_info(run) ==
    IF ~run.managerOk THEN Err
    ELSE IF ~run.batteriesOk THEN Err
    ELSE BatteryLoop(run.devs, ChargeInfo(0, "Unknown"))

DevSeqs == UNION { [1..n -> DevResults] : n \in 0..MaxBatteries }

\* What the battery crate can do during one call of get_charge_info.
SensorRuns ==
    { [managerOk |-> FALSE, batteriesOk |-> TRUE, devs |-> <<>>],
      [managerOk |-> TRUE, batteriesOk |-> FALSE, devs |-> <<>>] }
    \cup { [managerOk |-> TRUE, batteriesOk |-> TRUE, devs |-> d] : d \in DevSeqs }

\* ------------------------------------------------------------------ state
VARIABLES
    mainPc,         \* main: "start", "spawn_sampler", "spawn_delivery", "poll", "panicked"
    samplerPc,      \* sampling task: "unspawned", "tick", "send", "sleep"
    deliveryPc,     \* delivery task: "unspawned", "recv", "publish", "sleep", "done"
    prev_info,      \* the sampling task's prev_info
    pending,        \* <<entry>> while tx.send(message) awaits capacity, else <<>>
    queue,          \* the mpsc channel's buffer, oldest first
    inflight,       \* <<entry>> the delivery task received and has not yet sent
    ticks,          \* number of sampling ticks begun
    discoveryCount, \* number of publish calls made by home_assistant_discovery
    lastPublish,    \* <<call>>: the most recent client.publish call, else <<>>
    lastPoll,       \* outcome of the last eventloop.poll(): "none", "Ok", "Err"
    args,           \* Args: [topic, discovery_topic] as parsed from the command line
    advertised,     \* <<state_topic>> of the discovery descriptor once it is built
    fmtIn,          \* <<DiscoveryTopic>> handed to Display (formatting runs only)
    fmtOut,         \* <<string>> Display produced for fmtIn
    lastSample,     \* history: <<[ok, value, sent]>> of the most recent tick
    lastEnq,        \* history: <<reading>> of the message enqueued last
    sendCount,      \* history: number of messages handed to tx.send
    pubSeq,         \* history: number (in send order) of the message published last
    sendErrs,       \* history: number of tx.send calls that returned Err
    lastOk,         \* history: <<reading>> the last Ok state publish carried as JSON
    scenario        \* history: the readings and enqueues of a run A, A, B, B, C

vars ==
    << mainPc, samplerPc, deliveryPc, prev_info, pending, queue, inflight, ticks,
       discoveryCount, lastPublish, lastPoll, lastSample, lastEnq, sendCount,
       pubSeq, lastOk, scenario, args, advertised, fmtIn, fmtOut, sendErrs >>

\* Fixed after start-up: the arguments, and the formatting runs' input/output.
cfgVars == << args, fmtIn, fmtOut >>
mainVars == << mainPc, discoveryCount, lastPoll, advertised, cfgVars >>
samplerVars ==
    << samplerPc, prev_info, pending, ticks, lastSample, lastEnq, sendCount,
       scenario, sendErrs >>
deliveryVars == << deliveryPc, inflight, lastOk, pubSeq >>

Hostnames == { <<"myhost">>, <<>> }
PollResults == {"Ok", "Err"}

\* Args: the defaults of the topic and discovery_topic options.
ArgsTopic == "battery-daemon/status/battery"
ArgsDiscoveryTopic == "homeassistant"
DefaultArgs == [topic |-> ArgsTopic, discovery_topic |-> ArgsDiscoveryTopic]

\* Command lines: the defaults, and both options given.
ArgsSet == { DefaultArgs, [topic |-> "bat", discovery_topic |-> "ha"] }

\* Mutant: the state topic is built from the option's default.
StateTopicOfDefault == ArgsTopic \o "/state"

\* state_topic = format!("{}/state", topic)
StateTopic == args.topic \o "/state"

\* The state message the sampling task builds for a payload.
StateMessage(payload) ==
    BuilderBuild(BuilderRetain(BuilderTopic(
        BuilderPayload(MessageBuilderNew, payload), StateTopic), TRUE))

\* ------------------------------------------------------------- operations
\* Mutant: the fallback of a failed read carries another state.
CandidateWrongFallback(info) ==
    IF info.ok THEN info.value ELSE ChargeInfo(0, "Empty")

\* The value the sampling task uses for a read result (match info { ... }).
Candidate(info) == IF info.ok THEN info.value ELSE ChargeInfo(0, "Unknown")

\* Mutant: every tick publishes.
ShouldPublishAlways(value, prev) == TRUE

\* Mutant: only the percentage is compared.
ShouldPublishPct(value, prev) == value.percentage # prev.percentage

\* if value != prev_info (derived PartialEq: both fields).
ShouldPublish(value, prev) ==
    value.percentage # prev.percentage \/ value.state # prev.state

\* serde_json::to_string(&value) with its fallback.
StatePayload(value, serOk) == IF serOk THEN ChargeInfoJson(value) ELSE ParsingError

\* Mutant: try_send, which fails on a full channel instead of waiting.
SendOutcomeTry(q, closed) ==
    IF closed THEN "closed"
    ELSE IF Len(q) < QueueCap THEN "ready"
    ELSE "full"

\* tx.send(message).await on the bounded channel: "closed" (Err) when the
\* receiver is gone, "ready" when a slot is free, else the task waits.
SendOutcome(q, closed) ==
    IF closed THEN "closed"
    ELSE IF Len(q) < QueueCap THEN "ready"
    ELSE "wait"

\* The receiver lives in the delivery task, which is dropped only if it ends.
RxClosed == deliveryPc = "done"

\* Mutant: the newest message is received first.
RecvLast(q) == [item |-> q[Len(q)], rest |-> SubSeq(q, 1, Len(q) - 1)]

\* rx.recv().await on a non-empty channel: the oldest message.
Recv(q) == [item |-> Head(q), rest |-> Tail(q)]

\* mqtt_send: the client.publish call it makes, with the call's result.
mqtt_send(message, ok) ==
    [ topic |-> message.topic, qos |-> "AtLeastOnce", retain |-> message.retain,
      payload |-> message.payload, ok |-> ok ]

\* Mutant: the delivery task receives again right after a send.
AfterSendNoSleep(ok) == "recv"

\* Mutant: a failed publish ends the delivery task.
AfterSendStop(ok) == IF ok THEN "sleep" ELSE "done"

\* mqtt_send's match on the result: both arms print and return.
AfterSend(ok) == "sleep"

\* The scenario history: readings are recorded while they run A, A, B, B, C
\* with A, B, C pairwise different and A not the initial prev_info.
IsScenarioPrefix(vals) ==
    /\ Len(vals) <= 5
    /\ Len(vals) >= 1 => vals[1] # Sentinel
    /\ Len(vals) >= 2 => vals[2] = vals[1]
    /\ Len(vals) >= 3 => vals[3] # vals[1]
    /\ Len(vals) >= 4 => vals[4] = vals[3]
    /\ Len(vals) >= 5 => vals[5] # vals[1] /\ vals[5] # vals[3]

ScenarioOff == [on |-> FALSE, vals |-> <<>>, enq |-> {}]

ScenarioSample(sc, value) ==
    IF sc.on /\ IsScenarioPrefix(Append(sc.vals, value))
    THEN [sc EXCEPT !.vals = Append(sc.vals, value)]
    ELSE ScenarioOff

ScenarioEnqueue(sc, tick) ==
    IF sc.on THEN [sc EXCEPT !.enq = sc.enq \cup {tick}] ELSE sc

\* Mutant: prev_info starts as another reading.
InitialPrevCharging == ChargeInfo(74, "Charging")

\* let mut prev_info = ChargeInfo { percentage: 0.0, state: State::Unknown }
InitialPrev == ChargeInfo(0, "Unknown")

\* The process before main's first statement, whatever the arguments.
Start ==
    /\ mainPc = "start"
    /\ samplerPc = "unspawned"
    /\ deliveryPc = "unspawned"
    /\ prev_info = InitialPrev
    /\ pending = <<>>
    /\ queue = <<>>
    /\ inflight = <<>>
    /\ ticks = 0
    /\ discoveryCount = 0
    /\ lastPublish = <<>>
    /\ lastPoll = "none"
    /\ lastSample = <<>>
    /\ lastEnq = <<>>
    /\ sendCount = 0
    /\ pubSeq = 0
    /\ lastOk = <<>>
    /\ scenario = [on |-> TRUE, vals |-> <<>>, enq |-> {}]
    /\ advertised = <<>>
    /\ sendErrs = 0

\* The daemon started with the default arguments.
Init ==
    /\ Start
    /\ args = DefaultArgs
    /\ fmtIn = <<>>
    /\ fmtOut = <<>>

\* Mutant: main goes on to spawn the tasks without publishing the discovery.
MainDiscoveryNoPublish(host, serOk, pubOk) ==
    /\ mainPc = "start"
    /\ mainPc' = IF serOk THEN "spawn_sampler" ELSE "panicked"
    /\ UNCHANGED << discoveryCount, lastPublish, lastPoll, advertised, cfgVars,
                    samplerVars, deliveryVars, queue >>

\* main, lines 320-330: build the discovery topic and payload, publish them.
\* Display for DiscoveryPayload panics when serialization fails.
MainDiscovery(host, serOk, pubOk) ==
    /\ mainPc = "start"
    /\ LET topic == BuilderComp(DiscoveryTopicBuilderNew(host), "Sensor")
           payload == DiscoveryPayloadNew(topic.object_id,
                          DiscoveryDeviceFmt("Sensor"), StateTopic, "%",
                          "{{ value_json.percentage }}")
       IN IF ~serOk
          THEN /\ mainPc' = "panicked"
               /\ advertised' = <<payload.state_topic>>
               /\ UNCHANGED << discoveryCount, lastPublish >>
          ELSE /\ discoveryCount' = discoveryCount + 1
               /\ advertised' = <<payload.state_topic>>
               /\ lastPublish' = << mqtt_send(
                      DiscoveryMessage(topic, DiscoveryPayloadJson(payload)), pubOk) >>
               /\ mainPc' = "spawn_sampler"
    /\ UNCHANGED << lastPoll, cfgVars, samplerVars, deliveryVars, queue >>

\* task::spawn of the sampling task.
MainSpawnSampler ==
    /\ mainPc = "spawn_sampler"
    /\ mainPc' = "spawn_delivery"
    /\ samplerPc' = "tick"
    /\ UNCHANGED << deliveryVars, queue, prev_info, pending, ticks, lastSample,
                    lastEnq, sendCount, scenario, sendErrs, discoveryCount,
                    lastPublish, lastPoll, advertised, cfgVars >>

\* task::spawn of the delivery task.
MainSpawnDelivery ==
    /\ mainPc = "spawn_delivery"
    /\ mainPc' = "poll"
    /\ deliveryPc' = "recv"
    /\ UNCHANGED << samplerVars, queue, inflight, lastOk, pubSeq,
                    discoveryCount, lastPublish, lastPoll, advertised, cfgVars >>

\* Mutant: the event loop is left on a poll error.
MainPollBreakOnErr(res) ==
    /\ mainPc = "poll"
    /\ lastPoll' = res
    /\ mainPc' = IF res = "Err" THEN "done" ELSE "poll"
    /\ UNCHANGED << discoveryCount, lastPublish, advertised, cfgVars,
                    samplerVars, deliveryVars, queue >>

\* One iteration of the event loop: poll, print an error, go on.
MainPoll(res) ==
    /\ mainPc = "poll"
    /\ lastPoll' = res
    /\ UNCHANGED << mainPc, discoveryCount, lastPublish, advertised, cfgVars,
                    samplerVars, deliveryVars, queue >>

\* Mutant: prev_info is updated only when the message was enqueued.
PrevAfterSendIfOk(value, prev, outcome) ==
    IF outcome = "closed" THEN prev ELSE value

\* prev_info = value (line 359), after tx.send whatever it returned.
PrevAfterSend(value, prev, outcome) == value

\* The sampling task from get_charge_info to the first poll of tx.send.
SampleTick(info, serOk) ==
    /\ samplerPc = "tick"
    /\ ticks < MaxTicks
    /\ LET value == Candidate(info)
           entry == [ msg |-> StateMessage(StatePayload(value, serOk)),
                      seq |-> sendCount + 1, value |-> value ]
           publish == ShouldPublish(value, prev_info)
           outcome == SendOutcome(queue, RxClosed)
           sc == ScenarioSample(scenario, value)
       IN /\ ticks' = ticks + 1
          /\ lastSample' = << [ok |-> info.ok, value |-> value, sent |-> publish] >>
          /\ sendCount' = IF publish THEN sendCount + 1 ELSE sendCount
          /\ IF ~publish
             THEN /\ samplerPc' = "sleep"
                  /\ scenario' = sc
                  /\ UNCHANGED << prev_info, pending, queue, lastEnq, sendErrs >>
             ELSE IF outcome = "wait"
             THEN /\ samplerPc' = "send"
                  /\ pending' = <<entry>>
                  /\ scenario' = sc
                  /\ UNCHANGED << prev_info, queue, lastEnq, sendErrs >>
             ELSE IF outcome = "ready"
             THEN /\ queue' = Append(queue, entry)
                  /\ lastEnq' = <<value>>
                  /\ scenario' = ScenarioEnqueue(sc, ticks + 1)
                  /\ prev_info' = PrevAfterSend(value, prev_info, outcome)
                  /\ samplerPc' = "sleep"
                  /\ UNCHANGED << pending, sendErrs >>
             ELSE \* Err: println!("receiver dropped")
                  /\ sendErrs' = sendErrs + 1
                  /\ prev_info' = PrevAfterSend(value, prev_info, outcome)
                  /\ samplerPc' = "sleep"
                  /\ scenario' = sc
                  /\ UNCHANGED << pending, queue, lastEnq >>
    /\ UNCHANGED << mainVars, deliveryVars, lastPublish >>

\* tx.send(message) completes once the channel has room (or is closed).
SendResume ==
    /\ samplerPc = "send"
    /\ LET entry == pending[1]
           outcome == SendOutcome(queue, RxClosed)
       IN /\ outcome # "wait"
          /\ IF outcome = "ready"
             THEN /\ queue' = Append(queue, entry)
                  /\ lastEnq' = <<entry.value>>
                  /\ scenario' = ScenarioEnqueue(scenario, ticks)
                  /\ UNCHANGED sendErrs
             ELSE /\ sendErrs' = sendErrs + 1
                  /\ UNCHANGED << queue, lastEnq, scenario >>
          /\ prev_info' = PrevAfterSend(entry.value, prev_info, outcome)
    /\ pending' = <<>>
    /\ samplerPc' = "sleep"
    /\ UNCHANGED << ticks, lastSample, sendCount, mainVars, deliveryVars,
                    lastPublish >>

\* The delivery task ends and rx is dropped with the messages still queued:
\* from then on tx.send returns Err.
ReceiverDropped ==
    /\ deliveryPc \in {"recv", "publish", "sleep"}
    /\ deliveryPc' = "done"
    /\ queue' = <<>>
    /\ inflight' = <<>>
    /\ UNCHANGED << lastOk, pubSeq, samplerVars, mainVars, lastPublish >>

\* time::sleep(60 s) of the sampling task is over.
SamplerWake ==
    /\ samplerPc = "sleep"
    /\ samplerPc' = "tick"
    /\ UNCHANGED << prev_info, pending, ticks, lastSample, lastEnq, sendCount,
                    scenario, sendErrs, queue, mainVars, deliveryVars,
                    lastPublish >>

\* rx.recv().await yields Some(info).  It yields None only when every
\* sender is gone, and the sampling task never drops tx.
DeliveryRecv ==
    /\ deliveryPc = "recv"
    /\ queue # <<>>
    /\ LET r == Recv(queue)
       IN /\ inflight' = <<r.item>>
          /\ queue' = r.rest
    /\ deliveryPc' = "publish"
    /\ UNCHANGED << lastOk, pubSeq, samplerVars, mainVars, lastPublish >>

\* Mutant: a failed publish is tried again with the same message.
DeliveryPublishRetry(ok) ==
    /\ deliveryPc = "publish"
    /\ LET entry == inflight[1]
       IN /\ lastPublish' = <<mqtt_send(entry.msg, ok)>>
          /\ pubSeq' = entry.seq
          /\ lastOk' =
                 IF ~ok THEN lastOk
                 ELSE IF entry.msg.payload = ChargeInfoJson(entry.value)
                 THEN <<entry.value>>
                 ELSE <<>>
    /\ inflight' = IF ok THEN <<>> ELSE inflight
    /\ deliveryPc' = IF ok THEN "sleep" ELSE "publish"
    /\ UNCHANGED << queue, samplerVars, mainVars >>

\* mqtt_send(client.clone(), info).await
DeliveryPublish(ok) ==
    /\ deliveryPc = "publish"
    /\ LET entry == inflight[1]
       IN /\ lastPublish' = <<mqtt_send(entry.msg, ok)>>
          /\ pubSeq' = entry.seq
          /\ lastOk' =
                 IF ~ok THEN lastOk
                 ELSE IF entry.msg.payload = ChargeInfoJson(entry.value)
                 THEN <<entry.value>>
                 ELSE <<>>
    /\ inflight' = <<>>
    /\ deliveryPc' = AfterSend(ok)
    /\ UNCHANGED << queue, samplerVars, mainVars >>

\* Mutant: after its sleep the delivery task sleeps again instead of
\* receiving.
DeliveryWakeSleepAgain ==
    /\ deliveryPc = "sleep"
    /\ deliveryPc' = "sleep"
    /\ UNCHANGED << inflight, lastOk, pubSeq, queue, samplerVars, mainVars,
                    lastPublish >>

\* time::sleep(60 s) of the delivery task is over.
DeliveryWake ==
    /\ deliveryPc = "sleep"
    /\ deliveryPc' = "recv"
    /\ UNCHANGED << inflight, lastOk, pubSeq, queue, samplerVars, mainVars,
                    lastPublish >>

Next ==
    \/ \E host \in Hostnames, serOk \in BOOLEAN, pubOk \in BOOLEAN :
           MainDiscovery(host, serOk, pubOk)
    \/ MainSpawnSampler
    \/ MainSpawnDelivery
    \/ \E res \in PollResults : MainPoll(res)
    \/ \E run \in SensorRuns, serOk \in BOOLEAN :
           SampleTick(get_charge_info(run), serOk)
    \/ SendResume
    \/ SamplerWake
    \/ DeliveryRecv
    \/ \E ok \in BOOLEAN : DeliveryPublish(ok)
    \/ DeliveryWake

Spec == Init /\ [][Next]_vars

\* main with the receiver free to be dropped, the one event that makes
\* tx.send return Err.  main as written never drops it (the delivery task's
\* loop has no exit): the behaviours of Spec are those of SpecRxDropped
\* without a ReceiverDropped step.
NextRxDropped ==
    \/ Next
    \/ ReceiverDropped

SpecRxDropped == Init /\ [][NextRxDropped]_vars

\* The runtime schedules main and the delivery task whenever they can run:
\* main spawns the delivery task and keeps polling, a timer that was set
\* fires, a receive on a non-empty channel and a publish call return.
FairSpec ==
    /\ Spec
    /\ WF_vars(MainSpawnDelivery)
    /\ WF_vars(\E res \in PollResults : MainPoll(res))
    /\ WF_vars(DeliveryRecv)
    /\ WF_vars(\E ok \in BOOLEAN : DeliveryPublish(ok))
    /\ WF_vars(DeliveryWake)

\* The daemon started with any of the command lines of ArgsSet.
InitArgs ==
    /\ Start
    /\ args \in ArgsSet
    /\ fmtIn = <<>>
    /\ fmtOut = <<>>

SpecArgs == InitArgs /\ [][Next]_vars

\* ------------------------------------------- formatting a DiscoveryTopic
\* The DiscoveryTopic values handed to Display: every component kind, with
\* and without a node id.
FmtTopics ==
    [ discovery_prefix : {"homeassistant", "ha", "p"},
      comp : {"BinarySensor", "Sensor", "NoneType"},
      node_id : { <<>>, <<"n1">>, <<"n2">> },
      object_id : {"myhost", "h2", ""} ]

InitFmt ==
    /\ Start
    /\ args = DefaultArgs
    /\ fmtIn \in { <<t>> : t \in FmtTopics }
    /\ fmtOut = <<>>

\* topic.to_string()
FormatTopic ==
    /\ fmtIn # <<>>
    /\ fmtOut = <<>>
    /\ fmtOut' = << DiscoveryTopicFmt(fmtIn[1]) >>
    /\ UNCHANGED << mainPc, discoveryCount, lastPoll, advertised, args, fmtIn,
                    samplerVars, deliveryVars, queue, lastPublish >>

NextFmt == FormatTopic

SpecFmt == InitFmt /\ [][NextFmt]_vars

\* ---------------------------------------------------------------- claims
\* A step in which the sampling task begins and evaluates one tick.
TickStep == ticks' = ticks + 1

\* The entry a tick step hands to tx.send: waiting in pending', or the
\* newest entry of queue'.
NewEntry == IF pending' # <<>> THEN pending'[1] ELSE queue'[Len(queue')]

\* The messages that were handed to tx.send and not yet to publish.
Waiting == inflight \o queue \o pending

\* C1: the sampling task never enqueues two messages in a row with equal
\* Readings, and of two successive ticks that yield the same Reading at most
\* one builds and sends a message.
C1_NoRepeatedEnqueue ==
    [][ /\ (Len(queue') > Len(queue) /\ lastEnq # <<>>)
            => queue'[Len(queue')].value # lastEnq[1]
        /\ (TickStep /\ lastSample # <<>>
                /\ lastSample'[1].value = lastSample[1].value)
            => ~(lastSample[1].sent /\ lastSample'[1].sent) ]_vars

\* C1 witness: a tick yielded the Reading of the message enqueued last, and
\* enqueued nothing.
C1_Witness ==
    /\ ticks >= 2
    /\ lastSample # <<>>
    /\ ~lastSample[1].sent
    /\ lastEnq = << lastSample[1].value >>
    /\ lastSample[1].value # Sentinel

\* C2: a tick enqueues (at once, or after waiting for room) exactly when its
\* candidate differs field-wise from prev_info, prev_info becomes the
\* candidate exactly then, nothing else changes prev_info or fills the queue,
\* and a run A, A, B, B, C enqueues at ticks 1, 3 and 5 only.
C2_EnqueueIffChanged ==
    /\ [][ /\ TickStep =>
               LET cand == lastSample'[1].value
               IN IF cand.percentage # prev_info.percentage
                        \/ cand.state # prev_info.state
                  THEN \/ /\ queue' = Append(queue, NewEntry)
                          /\ NewEntry.value = cand
                          /\ prev_info' = cand
                          /\ pending' = <<>>
                       \/ /\ samplerPc' = "send"
                          /\ pending' # <<>>
                          /\ pending'[1].value = cand
                          /\ queue' = queue
                          /\ prev_info' = prev_info
                  ELSE /\ queue' = queue
                       /\ prev_info' = prev_info
                       /\ pending' = <<>>
           /\ (samplerPc = "send" /\ samplerPc' # "send") =>
                  /\ queue' = Append(queue, pending[1])
                  /\ prev_info' = pending[1].value
           /\ (prev_info' # prev_info \/ Len(queue') > Len(queue)) =>
                  (TickStep \/ samplerPc = "send") ]_vars
    /\ [](scenario.on /\ samplerPc # "send" =>
              scenario.enq = {1, 3, 5} \cap (1..Len(scenario.vals)))

\* C2 witness: five ticks A, A, B, B, C are over, with enqueues at 1, 3, 5.
C2_Witness ==
    /\ scenario.on
    /\ Len(scenario.vals) = 5
    /\ samplerPc = "sleep"
    /\ scenario.enq = {1, 3, 5}

C5_Fifo ==
    LET chain == inflight \o queue
    IN /\ \A i \in 1..Len(chain) : chain[i].seq > pubSeq
       /\ \A i, j \in 1..Len(chain) : i < j => chain[i].seq < chain[j].seq
       /\ deliveryPc = "publish" <=> inflight # <<>>

\* C5 witness: two messages wait in the queue after an earlier one was published.
C5_Witness == pubSeq >= 1 /\ Len(queue) = 2 /\ inflight # <<>>

\* C6 as claimed: the process never panics.
C6_NeverPanics == mainPc # "panicked"

C8_AlwaysRetained ==
    /\ lastPublish # <<>> => lastPublish[1].retain = TRUE
    /\ \A i \in 1..Len(Waiting) : Waiting[i].msg.retain = TRUE

\* C8 witness: the discovery publish call has been made, retained.
C8_Witness ==
    /\ lastPublish # <<>>
    /\ lastPublish[1].topic = "homeassistant/sensor/myhost/config"
    /\ lastPublish[1].retain

\* C9 as claimed: a successful state publish never carries the Reading that
\* the successful state publish before it carried.
C9_NoEqualConsecutivePublished ==
    [][ (pubSeq' # pubSeq /\ lastPublish'[1].ok /\ lastOk # <<>>
             /\ lastOk' # <<>>) =>
            lastOk'[1] # lastOk[1] ]_vars

\* C10: a publish call that fails leaves both tasks and main running: the
\* failing call of the delivery task leads to its sleep with nothing else
\* changed, and no task has ended or panicked while the last call is a failure.
C10_FailedPublishKeepsRunning ==
    /\ [][ (lastPublish' # lastPublish /\ ~lastPublish'[1].ok) =>
               /\ mainPc' \in {"spawn_sampler", "poll", "spawn_delivery"}
               /\ samplerPc' = samplerPc
               /\ queue' = queue
               /\ (pubSeq' # pubSeq => deliveryPc' = "sleep") ]_vars
    /\ [](/\ deliveryPc \in {"unspawned", "recv", "publish", "sleep"}
          /\ samplerPc \in {"unspawned", "tick", "send", "sleep"}
          /\ (lastPublish # <<>> /\ ~lastPublish[1].ok) => mainPc # "panicked")

\* C10 witness: after a failed state publish the delivery task has received
\* the next message and the sampling task has sent a later one.
C10_Witness ==
    /\ lastPublish # <<>>
    /\ ~lastPublish[1].ok
    /\ lastPublish[1].topic = StateTopic
    /\ deliveryPc = "publish"
    /\ inflight[1].seq = pubSeq + 1
    /\ sendCount > pubSeq + 1

\* C11: the event loop never ends: once main polls it polls for ever, whatever
\* the last poll returned, and an iteration of the loop (with an error or
\* without) changes nothing of the sampling task, the delivery task, the
\* queue or the publish calls.
C11_EventLoopForever ==
    /\ [][ /\ mainPc = "poll" => mainPc' = "poll"
           /\ lastPoll' # lastPoll =>
                  /\ mainPc = "poll"
                  /\ UNCHANGED << samplerVars, deliveryVars, queue, lastPublish,
                                  discoveryCount >> ]_vars
    /\ [](lastPoll # "none" => (mainPc = "poll" /\ ENABLED MainPoll("Ok")))

\* C11 witness: the last poll failed, main is still in the event loop, and
\* both tasks are at work: a message is being published, another waits, and
\* the sampling task has had a later tick.
C11_Witness ==
    /\ lastPoll = "Err"
    /\ mainPc = "poll"
    /\ deliveryPc = "publish"
    /\ queue # <<>>
    /\ ticks >= 3

\* The object ids DiscoveryTopicBuilder::new can produce.
ObjectIds == { IF h = <<>> THEN "" ELSE h[1] : h \in Hostnames }

\* C12 as claimed: the discovery publish call is made on the topic
\* "<P>/sensor/<H>/config", P the configured discovery prefix, H the host name.
C12_DiscoveryTopicFromConfiguredPrefix ==
    (discoveryCount = 1 /\ pubSeq = 0) =>
        \E h \in ObjectIds :
            lastPublish[1].topic = args.discovery_topic \o "/sensor/" \o h \o "/config"

\* C13 as claimed: a formatted discovery topic is
\* "<prefix>/<kind>/<node-id>/<object-id>/config" with a node id and
\* "<prefix>/<kind>/<object-id>/config" without one, the kind rendered as
\* sensor, binary_sensor or none.
C13_TopicFormat ==
    fmtOut # <<>> =>
        LET t == fmtIn[1]
            kind == CASE t.comp = "Sensor" -> "sensor"
                      [] t.comp = "BinarySensor" -> "binary_sensor"
                      [] t.comp = "NoneType" -> "none"
        IN fmtOut[1] =
               IF t.node_id # <<>>
               THEN t.discovery_prefix \o "/" \o kind \o "/" \o t.node_id[1]
                        \o "/" \o t.object_id \o "/config"
               ELSE t.discovery_prefix \o "/" \o kind \o "/" \o t.object_id
                        \o "/config"

\* C14: every state message, waiting or handed to publish, carries the topic
\* "<configured topic>/state" and no other, and that string is the
\* state_topic of the discovery descriptor, as built and as published.
C14_StateTopic ==
    LET expected == args.topic \o "/state"
    IN /\ \A i \in 1..Len(Waiting) : Waiting[i].msg.topic = expected
       /\ pubSeq >= 1 => lastPublish[1].topic = expected
       /\ advertised # <<>> => advertised[1] = expected
       /\ (discoveryCount = 1 /\ pubSeq = 0) =>
              \E h \in ObjectIds :
                  lastPublish[1].payload =
                      DiscoveryPayloadJson(DiscoveryPayloadNew(h, "sensor",
                          expected, "%", "{{ value_json.percentage }}"))

\* C14 witness: with the topic option given as "bat", a state message has
\* been published on "bat/state", the descriptor's state_topic, and another
\* one waits.
C14_Witness ==
    /\ args.topic = "bat"
    /\ pubSeq >= 1
    /\ lastPublish[1].topic = "bat/state"
    /\ advertised = << "bat/state" >>
    /\ queue # <<>>

\* C15: the delivery task hands a received message to publish once: the call
\* carries the message's topic, payload and retain flag and QoS at-least-once,
\* the message is gone from the task afterwards whether the call failed or
\* not, it is not put back into the queue, and no message that was published
\* is waiting again.
C15_PublishOnceUnchanged ==
    /\ [][ /\ pubSeq' # pubSeq =>
                  /\ deliveryPc = "publish"
                  /\ lastPublish'[1].topic = inflight[1].msg.topic
                  /\ lastPublish'[1].payload = inflight[1].msg.payload
                  /\ lastPublish'[1].retain = inflight[1].msg.retain
                  /\ lastPublish'[1].qos = "AtLeastOnce"
                  /\ pubSeq' = inflight[1].seq
                  /\ pubSeq' > pubSeq
                  /\ inflight' = <<>>
                  /\ queue' = queue
                  /\ pending' = pending
           /\ (lastPublish' # lastPublish /\ discoveryCount' = discoveryCount)
                  => pubSeq' # pubSeq
           /\ deliveryPc = "publish" => (deliveryPc' = "publish" <=> pubSeq' = pubSeq)
         ]_vars
    /\ [](\A i \in 1..Len(Waiting) : Waiting[i].seq > pubSeq)

\* C15 witness: a state publish failed; the delivery task sleeps with nothing
\* in flight, and the queue holds the next message, not the failed one.
C15_Witness ==
    /\ pubSeq >= 1
    /\ ~lastPublish[1].ok
    /\ deliveryPc = "sleep"
    /\ inflight = <<>>
    /\ queue # <<>>
    /\ queue[1].seq = pubSeq + 1

\* C16: a tx.send that returns Err for Reading R is only reported: the
\* sampling task goes to its sleep with prev_info = R, the message is in no
\* queue and is not sent again, main and the queue are left alone, and from
\* then on a tick sends exactly when its Reading differs from prev_info, so
\* a tick that reads R again sends nothing.
C16_FailedEnqueueStillRemembered ==
    /\ [][ /\ sendErrs' # sendErrs =>
                  LET R == IF TickStep THEN lastSample'[1].value
                           ELSE pending[1].value
                  IN /\ sendErrs' = sendErrs + 1
                     /\ prev_info' = R
                     /\ samplerPc' = "sleep"
                     /\ pending' = <<>>
                     /\ queue' = queue
                     /\ lastEnq' = lastEnq
                     /\ UNCHANGED << mainVars, deliveryVars, lastPublish >>
           /\ (TickStep /\ sendErrs > 0) =>
                  IF lastSample'[1].value = prev_info
                  THEN /\ ~lastSample'[1].sent
                       /\ sendCount' = sendCount
                       /\ sendErrs' = sendErrs
                       /\ UNCHANGED << prev_info, queue, pending >>
                  ELSE /\ lastSample'[1].sent
                       /\ sendCount' = sendCount + 1 ]_vars
    /\ [](sendErrs > 0 =>
              /\ queue = <<>>
              /\ pending = <<>>
              /\ samplerPc \in {"tick", "sleep"})

\* C16 witness: the send of R failed, R was never enqueued, and a later tick
\* read R again and sent nothing.
C16_Witness ==
    /\ sendErrs = 1
    /\ prev_info # Sentinel
    /\ lastEnq # << prev_info >>
    /\ lastSample[1].value = prev_info
    /\ ~lastSample[1].sent
    /\ samplerPc = "sleep"

\* C17: every publish call of the delivery task is followed by its sleep;
\* while it sleeps it neither receives nor publishes, however many messages
\* wait; it receives only in the state it enters when a sleep is over (or
\* when it is spawned), so a whole sleep lies between two of its publish calls.
C17_SleepBetweenPublishes ==
    [][ /\ pubSeq' # pubSeq => deliveryPc' = "sleep"
        /\ deliveryPc = "sleep" =>
               /\ deliveryPc' \in {"sleep", "recv"}
               /\ inflight' = <<>>
               /\ pubSeq' = pubSeq
               /\ Len(queue') >= Len(queue)
        /\ Len(queue') < Len(queue) => deliveryPc = "recv"
        /\ (deliveryPc # "recv" /\ deliveryPc' = "recv") =>
               deliveryPc \in {"sleep", "unspawned"}
        /\ (deliveryPc # "publish" /\ deliveryPc' = "publish") =>
               (deliveryPc = "recv" /\ Len(queue') < Len(queue)) ]_vars

\* C17 witness: the delivery task sleeps after a publish call while the
\* queue is full and the sampling task waits to send.
C17_Witness ==
    /\ deliveryPc = "sleep"
    /\ pubSeq >= 1
    /\ Len(queue) = QueueCap
    /\ samplerPc = "send"

\* C18: every state message that entered the queue is in the end received
\* and handed to a publish call: the messages handed to tx.send and not yet
\* to publish are always exactly those between tx.send and the publish call
\* (none is discarded), and again and again the queue and the delivery task
\* hold none of them (none stays for ever).
C18_EnqueuedEventuallyPublished ==
    /\ []({ Waiting[i].seq : i \in 1..Len(Waiting) } = (pubSeq + 1)..sendCount)
    /\ []<>(queue = <<>> /\ inflight = <<>>)

\* C18 witness: the last message of a full run has been published after it
\* had waited behind others.
C18_Witness ==
    /\ sendCount >= 3
    /\ pubSeq = sendCount
    /\ queue = <<>>
    /\ inflight = <<>>
    /\ deliveryPc = "sleep"

\* C19: prev_info starts as {0.0, Unknown}; while no message has been sent
\* every tick so far read that value, prev_info still holds it and nothing
\* waits or was published; a tick in that situation sends nothing if it reads
\* that value again, and sends the first message if it reads another.
C19_SentinelStart ==
    /\ [](/\ ticks = 0 => prev_info = ChargeInfo(0, "Unknown")
          /\ sendCount = 0 =>
                 /\ prev_info = ChargeInfo(0, "Unknown")
                 /\ Waiting = <<>>
                 /\ lastEnq = <<>>
                 /\ pubSeq = 0
                 /\ ticks > 0 => lastSample[1].value = ChargeInfo(0, "Unknown"))
    /\ [][ (TickStep /\ sendCount = 0) =>
               IF lastSample'[1].value = ChargeInfo(0, "Unknown")
               THEN /\ ~lastSample'[1].sent
                    /\ sendCount' = 0
                    /\ UNCHANGED << queue, pending, prev_info >>
               ELSE /\ lastSample'[1].sent
                    /\ sendCount' = 1
                    /\ NewEntry.seq = 1
                    /\ NewEntry.value = lastSample'[1].value ]_vars

\* C19 witness: two ticks or more read the start value and sent nothing, and
\* the tick after them enqueued the first message.
C19_Witness ==
    /\ ticks >= 3
    /\ sendCount = 1
    /\ lastSample[1].sent
    /\ lastEnq = << lastSample[1].value >>
    /\ Len(Waiting) = 1

\* A step of main's start-up: the discovery, or the spawn of a task.
MainStartupStep ==
    \/ \E host \in Hostnames, serOk \in BOOLEAN, pubOk \in BOOLEAN :
           MainDiscovery(host, serOk, pubOk)
    \/ MainSpawnSampler
    \/ MainSpawnDelivery

\* C20 as claimed: start-up never gets stuck: the discovery publish is made
\* before the first poll of the event loop, and until the sampling task, the
\* delivery task and the event loop all run, main has a start-up step to take.
C20_StartupReachesRunning ==
    /\ (lastPoll # "none" => discoveryCount = 1)
    /\ \/ /\ mainPc = "poll"
          /\ samplerPc # "unspawned"
          /\ deliveryPc # "unspawned"
       \/ ENABLED MainStartupStep

====
